---- MODULE Spec2Model ----
(***************************************************************************)
(* perf-linter-core: the incremental two-tier cache (cache.rs) and the     *)
(* cache-first parallel indexer that builds the metadata graph             *)
(* (analyzer/metadata.rs) over the single-file extractor                   *)
(* (analyzer/extract.rs).                                                  *)
(*                                                                         *)
(* Three specifications share the variables:                               *)
(*   SpecCache  one client calling new / set / get / clear, one call per   *)
(*              step (each action is a whole method);                      *)
(*   SpecRace   two workers calling set on one shared instance, one        *)
(*              statement of set per step;                                 *)
(*   SpecIndex  index_project_with_cache run after run, one rayon task per *)
(*              file, one statement of the closure per step.               *)
(***************************************************************************)
EXTENDS Integers, Sequences, FiniteSets, TLC

(***************************************************************************)
(* Bounds of the model.                                                    *)
(***************************************************************************)
\* calls the client of SpecCache makes
MaxCalls == 3
\* seconds the clock may advance (SystemTime::now().as_secs())
MaxTime == 1

(***************************************************************************)
(* Value domains.                                                          *)
(***************************************************************************)
\* file paths and contents the cache tests use (T = String)
TestPaths == {"test.ts", "persist.ts"}
TestContents == {"const x = 1;", "const x = 2;"}
TestDatas == {"parsed_ast", "persistent_data"}
\* cache versions: the one the tests use and a bumped one
Versions == {"1.0", "2.0"}
\* results of fs::write: done; File::create refused (the old file stays);
\* created and truncated but write_all failed (an empty file stays)
IoOutcomes == {"ok", "denied", "short"}

\* Option<T>
None == <<"None">>
Some(x) == <<"Some", x>>

\* a map as a function over the keys present (DashMap / directory listing)
EmptyMap == [k \in {} |-> 0]
Insert(map, key, value) == [k \in (DOMAIN map) \cup {key} |-> IF k = key THEN value ELSE map[k]]

VARIABLES
    memory_cache,   \* IncrementalCache.memory_cache of the live instance
    version,        \* IncrementalCache.version of the live instance
    dir_exists,     \* whether cache_dir exists on disk
    disk,           \* the files of cache_dir: file name -> text
    now,            \* the system clock, in seconds
    calls,          \* calls made by the client of SpecCache
    last_on,        \* per file path, the last set or clear that concerned it
    last_get,       \* the last get: its arguments and result, the set or clear it
                    \* followed, and what the tiers held for it when it was made
    persisted,      \* per (file path, version), the text sets under it left on disk
    worker,         \* SpecRace: per worker, the set call it is in
    source_text,    \* the text of each source file of the project, or Unreadable
    edited,         \* whether a file changed since the last run started
    runs,           \* runs of index_project_with_cache started
    phase,          \* "idle", "running" (inside for_each) or "returned"
    use_cache,      \* the use_cache argument of the run
    task,           \* per enumerated file, the closure's position and locals
    components,     \* MetadataGraph.components of the run
    imports,        \* MetadataGraph.imports of the run
    exports,        \* MetadataGraph.exports of the run
    extracted,      \* the files extract_all was called on in the run
    cache_calls,    \* the calls made on the cache in the run: <<"get" or "set", file>>
    found_bad,      \* the files whose get met a malformed or stale cache file in the run
    write_failed,   \* the files whose cache write failed in the run
    json,           \* what to_json returned for the run's graph, if called
    prev,           \* the previous run, when the project is unchanged since
    query,          \* the last query made on the returned graph, and its result
    walk_root,      \* SpecWalk: the components of the root given to find_all_source_files
    walk_entries,   \* SpecWalk: the entries WalkDir yields under that root
    walk_out,       \* SpecWalk: the value find_all_source_files returned, if called
    module_body,    \* SpecExtract: the body of the module given to the extractor
    extraction      \* SpecExtract: what the walk of the module left, if made

cache_vars == <<memory_cache, version, dir_exists, disk, now>>
log_vars == <<calls, last_on, last_get, persisted>>
race_vars == <<worker>>
graph_vars == <<components, imports, exports>>
walk_vars == <<walk_root, walk_entries, walk_out>>
visit_vars == <<module_body, extraction>>
index_vars == <<source_text, edited, runs, phase, use_cache, task, components, imports,
                exports, extracted, cache_calls, found_bad, write_failed, json, prev, query>>
vars == <<memory_cache, version, dir_exists, disk, now, calls, last_on, last_get, persisted,
          worker, source_text, edited, runs, phase, use_cache, task, components, imports,
          exports, extracted, cache_calls, found_bad, write_failed, json, prev, query,
          walk_root, walk_entries, walk_out, module_body, extraction>>

(***************************************************************************)
(* cache.rs: pure helpers.                                                 *)
(***************************************************************************)
\* DefaultHasher over the text: a fixed 64-bit function, tabulated on the
\* model's contents (their fingerprints are distinct)
hash_content(content) ==
    CASE content = "const x = 1;" -> 7001
      [] content = "const x = 2;" -> 7002
      [] content = "import React from 'react'; function App(props) {} export default App;" -> 7003
      [] content = "function Header() {} const Footer = () => {}; export const helper = 1;" -> 7004
      [] content = "function ( {" -> 7005
      [] content = "function Foo() {} const Memoized = React.memo(Foo); export default Memoized;" -> 7006
      [] content = "function Foo() {} const Memoized = memo(Foo); function Bar() {}" -> 7007
      [] OTHER -> 7000

current_timestamp == now

PathCode(file_path) ==
    CASE file_path = "test.ts" -> 1
      [] file_path = "persist.ts" -> 2
      [] file_path = "proj/src/App.tsx" -> 3
      [] file_path = "proj/src/Layout.jsx" -> 4
      [] OTHER -> 0

VersionCode(ver) ==
    CASE ver = "1.0" -> 1
      [] ver = "2.0" -> 2
      [] ver = "0.6.0" -> 3
      [] OTHER -> 0

\* mutant: the version is left out of the file-name hash
get_cache_path_NoVersion(file_path, ver) == <<PathCode(file_path) * 16, ".cache">>

\* the hash of (file_path, version), formatted as "{:x}.cache"
get_cache_path(file_path, ver) ==
    <<PathCode(file_path) * 16 + VersionCode(ver), ".cache">>

CacheEntry(content_hash, modified_at, data) ==
    [content_hash |-> content_hash, modified_at |-> modified_at, data |-> data]

\* serde_json::to_string(&entry): the entry's fields as JSON members
to_string(entry) ==
    <<"content_hash", entry.content_hash, "modified_at", entry.modified_at,
      "data", entry.data>>

\* serde_json::from_str::<CacheEntry<T>>: Ok(entry), or Err for a text that is
\* not a serialized entry (an empty or cut file)
from_str(text) ==
    IF Len(text) = 6 /\ text[1] = "content_hash" /\ text[3] = "modified_at"
                     /\ text[5] = "data"
    THEN <<"Ok", CacheEntry(text[2], text[4], text[6])>>
    ELSE <<"Err">>

(***************************************************************************)
(* cache.rs: the two tiers.                                                *)
(***************************************************************************)
\* memory tier of get (cache.rs 79-83): the data of the entry under file_path
\* when its fingerprint is the current one
memory_lookup(mc, file_path, content_hash) ==
    IF file_path \in DOMAIN mc /\ mc[file_path].content_hash = content_hash
    THEN Some(mc[file_path].data)
    ELSE None

\* mutant: the disk tier never answers
disk_lookup_Never(dk, cache_path, content_hash) == None

\* mutant: the disk entry is taken without comparing fingerprints
disk_lookup_AnyHash(dk, cache_path, content_hash) ==
    IF cache_path \in DOMAIN dk /\ from_str(dk[cache_path])[1] = "Ok"
    THEN Some(from_str(dk[cache_path])[2])
    ELSE None

\* disk tier of get (cache.rs 86-96): the entry read from cache_path when the
\* file can be read, parses, and carries the current fingerprint
disk_lookup(dk, cache_path, content_hash) ==
    IF cache_path \in DOMAIN dk /\ from_str(dk[cache_path])[1] = "Ok"
       /\ from_str(dk[cache_path])[2].content_hash = content_hash
    THEN Some(from_str(dk[cache_path])[2])
    ELSE None

\* mutant: get consults the disk tier only
get_outcome_DiskOnly(mc, dk, ver, file_path, content) ==
    LET on_disk == disk_lookup(dk, get_cache_path(file_path, ver), hash_content(content))
    IN  IF on_disk # None
        THEN [result |-> Some(on_disk[2].data), memory |-> Insert(mc, file_path, on_disk[2])]
        ELSE [result |-> None, memory |-> mc]

\* the file at cache_path exists and is not an entry for the fingerprint: it
\* does not deserialize, or it carries another fingerprint
disk_entry_bad(dk, cache_path, content_hash) ==
    /\ cache_path \in DOMAIN dk
    /\ \/ from_str(dk[cache_path])[1] = "Err"
       \/ from_str(dk[cache_path])[2].content_hash # content_hash

\* mutant: a disk hit is returned without being restored to memory
get_outcome_NoPromote(mc, dk, ver, file_path, content) ==
    LET content_hash == hash_content(content)
        in_memory == memory_lookup(mc, file_path, content_hash)
        on_disk == disk_lookup(dk, get_cache_path(file_path, ver), content_hash)
    IN  IF in_memory # None THEN [result |-> in_memory, memory |-> mc]
        ELSE IF on_disk # None THEN [result |-> Some(on_disk[2].data), memory |-> mc]
        ELSE [result |-> None, memory |-> mc]

\* IncrementalCache::get: the result and the memory tier it leaves
get_outcome(mc, dk, ver, file_path, content) ==
    LET content_hash == hash_content(content)
        in_memory == memory_lookup(mc, file_path, content_hash)
        on_disk == disk_lookup(dk, get_cache_path(file_path, ver), content_hash)
    IN  IF in_memory # None THEN [result |-> in_memory, memory |-> mc]
        ELSE IF on_disk # None
             THEN [result |-> Some(on_disk[2].data),
                   memory |-> Insert(mc, file_path, on_disk[2])]
        ELSE [result |-> None, memory |-> mc]

\* mutant: nothing reaches the disk
fs_write_Dropped(dk, dirx, cache_path, text, io) == dk

\* fs::write(cache_path, json).ok(): File::create then write_all
fs_write(dk, dirx, cache_path, text, io) ==
    IF ~dirx \/ io = "denied" THEN dk
    ELSE IF io = "short" THEN Insert(dk, cache_path, <<>>)
    ELSE Insert(dk, cache_path, text)

\* mutant: set keeps an entry already in memory
set_memory_KeepOld(mc, file_path, entry) ==
    IF file_path \in DOMAIN mc THEN mc ELSE Insert(mc, file_path, entry)

\* self.memory_cache.insert(file_path.to_string(), entry.clone())
set_memory(mc, file_path, entry) == Insert(mc, file_path, entry)

\* mutant: clear leaves the files of the directory in place
clear_disk_KeepFiles(dk) == dk

\* fs::remove_dir_all then fs::create_dir_all: the directory, emptied
clear_disk(dk) == EmptyMap

\* the workers of SpecRace, and a worker outside any call
Workers == {1, 2}

IdleWorker ==
    [pc |-> "idle", file_path |-> "", io |-> "", entry |-> CacheEntry(0, 0, "")]

\* no earlier run of the indexer to compare a run with
NoRun ==
    [valid |-> FALSE, use_cache |-> FALSE, components |-> EmptyMap, imports |-> EmptyMap,
     exports |-> EmptyMap, write_failed |-> {}, json |-> <<>>]

\* no query made on the graph
NoQuery == [op |-> "none", arg |-> "", result |-> None]

\* no call of find_all_source_files or of the extractor on their own
PureIdle ==
    /\ walk_root = <<>>
    /\ walk_entries = {}
    /\ walk_out = None
    /\ module_body = <<>>
    /\ extraction = None

\* no project, no run: the indexer's variables outside SpecIndex
IndexIdle ==
    /\ source_text = EmptyMap
    /\ edited = FALSE
    /\ runs = 0
    /\ phase = "idle"
    /\ use_cache = FALSE
    /\ task = EmptyMap
    /\ components = EmptyMap
    /\ imports = EmptyMap
    /\ exports = EmptyMap
    /\ extracted = {}
    /\ cache_calls = {}
    /\ found_bad = {}
    /\ write_failed = {}
    /\ json = <<>>
    /\ prev = NoRun
    /\ query = NoQuery

(***************************************************************************)
(* SpecCache: one client, one call per step.  The log variables record the *)
(* calls as the client sees them; the cache never reads them.              *)
(***************************************************************************)
\* a set or clear as logged: inst says whether the instance that made it is
\* still the live one, read whether a get on the path has followed it
NoCall ==
    [op |-> "none", content |-> "", data |-> "", io |-> "", ver |-> "",
     inst |-> "live", read |-> FALSE]

NoGet ==
    [path |-> "", content |-> "", ver |-> "", result |-> None,
     in_memory |-> FALSE, written |-> FALSE, stored |-> {}, after |-> NoCall]

\* the data stored for file_path under the fingerprint of content, in the
\* memory tier and in the cache file of (file_path, live version)
StoredFor(file_path, content) ==
    LET cache_path == get_cache_path(file_path, version)
        text == IF cache_path \in DOMAIN disk THEN disk[cache_path] ELSE <<>>
    IN  {memory_cache[p].data : p \in {q \in DOMAIN memory_cache :
            q = file_path /\ memory_cache[q].content_hash = hash_content(content)}}
        \cup
        (IF from_str(text)[1] = "Ok"
            /\ from_str(text)[2].content_hash = hash_content(content)
         THEN {from_str(text)[2].data} ELSE {})

CanCall == calls < MaxCalls

\* IncrementalCache::new(cache_dir, ver): a fresh instance over the directory;
\* the instance it replaces is dropped
new(ver) ==
    /\ CanCall
    /\ memory_cache' = EmptyMap
    /\ version' = ver
    /\ dir_exists' = TRUE
    /\ calls' = calls + 1
    /\ last_on' = [p \in DOMAIN last_on |->
                     IF last_on[p].op = "set"
                     THEN [last_on[p] EXCEPT !.inst = "dropped"] ELSE last_on[p]]
    /\ UNCHANGED <<disk, now, last_get, persisted, race_vars, index_vars, walk_vars, visit_vars>>

\* IncrementalCache::set(file_path, content, data); io is what fs::write does
set(file_path, content, data, io) ==
    LET entry == CacheEntry(hash_content(content), current_timestamp, data) IN
    /\ CanCall
    /\ memory_cache' = set_memory(memory_cache, file_path, entry)
    /\ disk' = fs_write(disk, dir_exists, get_cache_path(file_path, version),
                        to_string(entry), io)
    /\ calls' = calls + 1
    /\ last_on' = [last_on EXCEPT ![file_path] =
                     [op |-> "set", content |-> content, data |-> data, io |-> io,
                      ver |-> version, inst |-> "live", read |-> FALSE]]
    /\ persisted' = IF io = "ok" THEN Insert(persisted, <<file_path, version>>, to_string(entry))
                    ELSE IF io = "short" THEN Insert(persisted, <<file_path, version>>, <<>>)
                    ELSE persisted
    /\ UNCHANGED <<version, dir_exists, now, last_get, race_vars, index_vars, walk_vars, visit_vars>>

\* IncrementalCache::get(file_path, content)
get(file_path, content) ==
    LET out == get_outcome(memory_cache, disk, version, file_path, content) IN
    /\ CanCall
    /\ memory_cache' = out.memory
    /\ calls' = calls + 1
    /\ last_get' = [path |-> file_path, content |-> content, ver |-> version,
                    result |-> out.result,
                    in_memory |-> file_path \in DOMAIN memory_cache,
                    written |-> <<file_path, version>> \in DOMAIN persisted,
                    stored |-> StoredFor(file_path, content),
                    after |-> last_on[file_path]]
    /\ last_on' = [last_on EXCEPT ![file_path].read = TRUE]
    /\ UNCHANGED <<version, dir_exists, disk, now, persisted, race_vars, index_vars, walk_vars, visit_vars>>

\* IncrementalCache::clear()
clear ==
    /\ CanCall
    /\ memory_cache' = EmptyMap
    /\ disk' = clear_disk(disk)
    /\ dir_exists' = TRUE
    /\ calls' = calls + 1
    /\ last_on' = [p \in DOMAIN last_on |-> [NoCall EXCEPT !.op = "clear"]]
    /\ persisted' = EmptyMap
    /\ UNCHANGED <<version, now, last_get, race_vars, index_vars, walk_vars, visit_vars>>

\* the clock advances between calls
Tick ==
    /\ now < MaxTime
    /\ now' = now + 1
    /\ UNCHANGED <<memory_cache, version, dir_exists, disk, log_vars, race_vars, index_vars, walk_vars, visit_vars>>

InitCache ==
    /\ memory_cache = EmptyMap
    /\ version = "1.0"
    /\ dir_exists = TRUE
    /\ disk = EmptyMap
    /\ now = 0
    /\ calls = 0
    /\ last_on = [p \in TestPaths |-> NoCall]
    /\ last_get = NoGet
    /\ persisted = EmptyMap
    /\ worker = [w \in Workers |-> IdleWorker]
    /\ IndexIdle
    /\ PureIdle

NextCache ==
    \/ \E ver \in Versions : new(ver)
    \/ \E file_path \in TestPaths, content \in TestContents, data \in TestDatas,
          io \in IoOutcomes : set(file_path, content, data, io)
    \/ \E file_path \in TestPaths, content \in TestContents : get(file_path, content)
    \/ clear
    \/ Tick

SpecCache == InitCache /\ [][NextCache]_vars

(***************************************************************************)
(* Claims about the cache, under SpecCache.                                *)
(***************************************************************************)
\* the last get came right after a set on its path made through the same
\* instance, with no other call on that path in between
GetFollowsSet ==
    /\ last_get.path # ""
    /\ last_get.after.op = "set"
    /\ last_get.after.inst = "live"
    /\ ~last_get.after.read

\* C1: on one instance, set(path, content, data) followed immediately by
\* get(path, content) returns data, whatever calls preceded the set.
C1_SetThenGetReturnsData ==
    (GetFollowsSet /\ last_get.content = last_get.after.content)
        => last_get.result = Some(last_get.after.data)

\* C1 witness: a get that followed a set of the same content, the set itself
\* made after an earlier call, and the get returned the data just set
C1_Witness ==
    /\ GetFollowsSet
    /\ last_get.content = last_get.after.content
    /\ last_get.result = Some(last_get.after.data)
    /\ calls = 3

GetOnFreshInstance ==
    /\ last_get.path # ""
    /\ last_get.after.op = "set"
    /\ last_get.after.inst = "dropped"
    /\ ~last_get.in_memory
    /\ last_get.after.ver = last_get.ver
    /\ last_get.after.content = last_get.content

C4_VersionBumpInvalidates ==
    /\ (last_get.path # "" /\ ~last_get.in_memory /\ ~last_get.written)
          => last_get.result = None
    /\ \A key \in DOMAIN persisted :
          /\ get_cache_path(key[1], key[2]) \in DOMAIN disk
          /\ disk[get_cache_path(key[1], key[2])] = persisted[key]

\* C4 witness: a get on a fresh instance missed while the entry for its path
\* and content sits on disk, persisted under the other version
C4_Witness ==
    /\ last_get.path # ""
    /\ ~last_get.in_memory
    /\ ~last_get.written
    /\ last_get.result = None
    /\ last_get.after.op = "set"
    /\ last_get.after.io = "ok"
    /\ last_get.after.ver # last_get.ver
    /\ last_get.after.content = last_get.content
    /\ <<last_get.path, last_get.after.ver>> \in DOMAIN persisted
    /\ disk[get_cache_path(last_get.path, last_get.after.ver)]
          = persisted[<<last_get.path, last_get.after.ver>>]

C16_FailedWriteSwallowed ==
    /\ \A p \in TestPaths :
          (last_on[p].op = "set" /\ last_on[p].inst = "live" /\ ~last_on[p].read
           /\ last_on[p].io # "ok") =>
              /\ p \in DOMAIN memory_cache
              /\ memory_cache[p].content_hash = hash_content(last_on[p].content)
              /\ memory_cache[p].data = last_on[p].data
    /\ (GetFollowsSet /\ last_get.content = last_get.after.content
        /\ last_get.after.io # "ok") =>
              last_get.result = Some(last_get.after.data)

C16_Witness ==
    /\ GetFollowsSet
    /\ last_get.content = last_get.after.content
    /\ last_get.after.io = "denied"
    /\ ~last_get.written
    /\ last_get.result = Some(last_get.after.data)

\* the files of the cache directory once the file at cache_path is removed
without_file(dk, cache_path) == [k \in DOMAIN dk \ {cache_path} |-> dk[k]]

\* C24: a get that misses in memory and finds the file of its path holding
\* an entry with the current fingerprint returns that entry's data and leaves
\* the entry in the memory tier under the path, so that the same get on the
\* instance then returns the data with the file removed; a get that misses
\* in both tiers changes neither tier.
C24_DiskHitPromoted ==
    [][last_get' # last_get =>
         LET file_path == last_get'.path
             content_hash == hash_content(last_get'.content)
             cache_path == get_cache_path(file_path, version)
             memory_miss == ~(/\ file_path \in DOMAIN memory_cache
                              /\ memory_cache[file_path].content_hash = content_hash)
             disk_match == /\ cache_path \in DOMAIN disk
                           /\ from_str(disk[cache_path])[1] = "Ok"
                           /\ from_str(disk[cache_path])[2].content_hash = content_hash
         IN  /\ (memory_miss /\ disk_match) =>
                   LET entry == from_str(disk[cache_path])[2] IN
                   /\ last_get'.result = Some(entry.data)
                   /\ file_path \in DOMAIN memory_cache'
                   /\ memory_cache'[file_path] = entry
                   /\ disk' = disk
                   /\ get_outcome(memory_cache', without_file(disk', cache_path), version',
                                  file_path, last_get'.content).result = Some(entry.data)
             /\ (memory_miss /\ ~disk_match) =>
                   /\ last_get'.result = None
                   /\ memory_cache' = memory_cache
                   /\ disk' = disk]_vars

\* the last get was answered from a file written through an earlier instance
\* and the live instance now holds the entry in memory
C24_Witness ==
    /\ last_get.path # ""
    /\ ~last_get.in_memory
    /\ last_get.result # None
    /\ last_get.after.op = "set"
    /\ last_get.after.inst = "dropped"
    /\ last_on[last_get.path].read
    /\ last_get.path \in DOMAIN memory_cache
    /\ memory_cache[last_get.path].data = last_get.result[2]
    /\ memory_cache[last_get.path].content_hash = hash_content(last_get.content)

(***************************************************************************)
(* SpecRace: two workers share the instance (Arc<IncrementalCache>) and    *)
(* each calls set once; a step is one statement of set.  fs::write is      *)
(* File::create (open, truncating) followed by write_all from offset 0.    *)
(***************************************************************************)
\* bytes of a serialized entry beyond the members of equal length
DataLen(data) ==
    CASE data = "parsed_ast" -> 10
      [] data = "persistent_data" -> 15
      [] OTHER -> 0

ByteLen(text) ==
    IF Len(text) = 0 THEN 0
    ELSE IF Len(text) = 6 THEN DataLen(text[6])
    ELSE DataLen(text[6]) + text[8]

\* write_all(json) from offset 0 into a file that holds old: the bytes of old
\* beyond the length of json stay behind it
write_all(old, text) ==
    IF ByteLen(text) >= ByteLen(old) THEN text
    ELSE text \o <<"tail", ByteLen(old) - ByteLen(text)>>

\* cache.rs 103-108: the entry is built from the arguments and the clock
set_begin(w, file_path, content, data, io) ==
    /\ worker[w].pc = "idle"
    /\ worker' = [worker EXCEPT ![w] =
                    [pc |-> "insert", file_path |-> file_path, io |-> io,
                     entry |-> CacheEntry(hash_content(content), current_timestamp, data)]]
    /\ UNCHANGED <<cache_vars, log_vars, index_vars, walk_vars, visit_vars>>

\* cache.rs 111-112: memory_cache.insert
set_insert(w) ==
    /\ worker[w].pc = "insert"
    /\ memory_cache' = set_memory(memory_cache, worker[w].file_path, worker[w].entry)
    /\ worker' = [worker EXCEPT ![w].pc = "create"]
    /\ UNCHANGED <<version, dir_exists, disk, now, log_vars, index_vars, walk_vars, visit_vars>>

\* cache.rs 115-117: fs::write opens the cache file, truncating it; when the
\* open is refused the write is over and set returns
set_create(w) ==
    /\ worker[w].pc = "create"
    /\ IF ~dir_exists \/ worker[w].io = "denied"
       THEN /\ worker' = [worker EXCEPT ![w].pc = "done"]
            /\ UNCHANGED disk
       ELSE /\ worker' = [worker EXCEPT ![w].pc = "write"]
            /\ disk' = Insert(disk, get_cache_path(worker[w].file_path, version), <<>>)
    /\ UNCHANGED <<memory_cache, version, dir_exists, now, log_vars, index_vars, walk_vars, visit_vars>>

\* cache.rs 117: fs::write writes the text; set returns whatever the result
set_write_all(w) ==
    LET cache_path == get_cache_path(worker[w].file_path, version) IN
    /\ worker[w].pc = "write"
    /\ worker' = [worker EXCEPT ![w].pc = "done"]
    /\ IF worker[w].io = "short"
       THEN UNCHANGED disk
       ELSE disk' = Insert(disk, cache_path,
                           write_all(disk[cache_path], to_string(worker[w].entry)))
    /\ UNCHANGED <<memory_cache, version, dir_exists, now, log_vars, index_vars, walk_vars, visit_vars>>

InitRace == InitCache

NextRace ==
    \/ \E w \in Workers, file_path \in TestPaths, content \in TestContents,
          data \in TestDatas, io \in IoOutcomes : set_begin(w, file_path, content, data, io)
    \/ \E w \in Workers : set_insert(w)
    \/ \E w \in Workers : set_create(w)
    \/ \E w \in Workers : set_write_all(w)
    \/ Tick

SpecRace == InitRace /\ [][NextRace]_vars

\* both workers have returned from set on the same path, their writes done
BothSetsReturned ==
    /\ \A w \in Workers : worker[w].pc = "done" /\ worker[w].io = "ok"
    /\ worker[1].file_path = worker[2].file_path

\* C6: under every interleaving of two set calls for the same path by
\* different workers, once both have returned the memory tier and the disk tier
\* hold the same entry for that path.
C6_TiersConsistentAfterRace ==
    BothSetsReturned =>
        LET file_path == worker[1].file_path
            cache_path == get_cache_path(file_path, version)
        IN  /\ file_path \in DOMAIN memory_cache
            /\ cache_path \in DOMAIN disk
            /\ from_str(disk[cache_path]) = <<"Ok", memory_cache[file_path]>>

(***************************************************************************)
(* analyzer/extract.rs: the single-file extractor.  A syntax tree is a     *)
(* sequence of nodes; a node is a record with a type and, by type, its     *)
(* children; span is the node's span.lo.                                   *)
(***************************************************************************)
\* identifiers of the model's sources whose first character is uppercase
UppercaseInitial == {"App", "Header", "Footer", "React", "Memoized", "Foo", "Bar", "Button"}

\* name.chars().next().map(|c| c.is_uppercase()).unwrap_or(false)
is_component_name(name) == name \in UppercaseInitial

span_line(span) == span

\* nodes
Ident(sym, span) == [type |-> "Ident", sym |-> sym, span |-> span]
Member(obj, prop) == [type |-> "Member", obj |-> obj, prop |-> prop]
Lit(span) == [type |-> "Lit", span |-> span]
Call(callee, args) == [type |-> "Call", callee |-> callee, args |-> args]
Arrow(body) == [type |-> "Arrow", body |-> body]
Param(pat, sym, span) == [type |-> "Param", pat |-> pat, sym |-> sym, span |-> span]
FnDecl(sym, span, params, body) ==
    [type |-> "FnDecl", sym |-> sym, span |-> span, params |-> params, body |-> body]
VarDeclarator(sym, span, init) ==
    [type |-> "VarDeclarator", sym |-> sym, span |-> span, init |-> init]
VarDecl(decls) == [type |-> "VarDecl", decls |-> decls]
ImportDecl(src, specifiers, span) ==
    [type |-> "ImportDecl", src |-> src, specifiers |-> specifiers, span |-> span]
ExportDecl(decl, span) == [type |-> "ExportDecl", decl |-> decl, span |-> span]
ExportDefaultExpr(expr, span) == [type |-> "ExportDefaultExpr", expr |-> expr, span |-> span]

ComponentMeta(name, file_path, is_memoized, props, exps, line) ==
    [name |-> name, file_path |-> file_path, is_memoized |-> is_memoized,
     props |-> props, exports |-> exps, line |-> line]
PropInfo(name, kind, is_stable, line) ==
    [name |-> name, kind |-> kind, is_stable |-> is_stable, line |-> line]
ExportInfo(name, kind, line) == [name |-> name, kind |-> kind, line |-> line]
ImportMeta(source, specifiers, line) ==
    [source |-> source, specifiers |-> specifiers, line |-> line]
ImportSpecifierMeta(local, imported) == [local |-> local, imported |-> imported]

\* React.memo or memo
is_identifier_react_memo(expr) ==
    IF expr.type = "Member"
    THEN expr.obj.type = "Ident" /\ expr.obj.sym = "React"
         /\ expr.prop.type = "Ident" /\ expr.prop.sym = "memo"
    ELSE expr.type = "Ident" /\ expr.sym = "memo"

expr_ident_name(expr) == IF expr.type = "Ident" THEN Some(expr.sym) ELSE None

\* a specifier is [kind, local, imported]; imported is None for `{ a }`
extract_import_specifier(sp) ==
    CASE sp.kind = "Named" -> ImportSpecifierMeta(sp.local, sp.imported)
      [] sp.kind = "Default" -> ImportSpecifierMeta(sp.local, Some("default"))
      [] OTHER -> ImportSpecifierMeta(sp.local, Some("*"))

param_to_prop(p) ==
    CASE p.pat = "Ident" -> PropInfo(p.sym, "Primitive", TRUE, span_line(p.span))
      [] p.pat = "Object" -> PropInfo("props", "Object", FALSE, span_line(p.span))
      [] p.pat = "Array" -> PropInfo("props", "Array", FALSE, span_line(p.span))
      [] OTHER -> PropInfo("arg", "Primitive", TRUE, span_line(p.span))

params_to_props(params) == [i \in 1..Len(params) |-> param_to_prop(params[i])]

\* MetadataExtractor::default()
NewExtractor == [components |-> <<>>, imports |-> <<>>, exports |-> <<>>]

\* the first recorded component named name, 0 when there is none
FindComponent(comps, name) ==
    IF \E i \in 1..Len(comps) : comps[i].name = name
    THEN CHOOSE i \in 1..Len(comps) :
            /\ comps[i].name = name
            /\ \A j \in 1..(i - 1) : comps[j].name # name
    ELSE 0

\* visit_fn_decl, before its children are visited
visit_fn_decl(ex, func) ==
    IF is_component_name(func.sym)
    THEN [ex EXCEPT !.components = Append(@,
            ComponentMeta(func.sym, "", FALSE, params_to_props(func.params), <<>>,
                          span_line(func.span)))]
    ELSE ex

\* visit_var_declarator, before its children are visited
visit_var_declarator(ex, d) ==
    IF d.sym = "" \/ d.init.type = "NoInit" THEN ex
    ELSE IF d.init.type = "Call"
    THEN IF d.init.callee.type # "Super" /\ is_identifier_react_memo(d.init.callee)
            /\ Len(d.init.args) > 0 /\ expr_ident_name(d.init.args[1]) # None
         THEN LET comp_name == expr_ident_name(d.init.args[1])[2]
                  i == FindComponent(ex.components, comp_name)
              IN  IF i > 0
                  THEN [ex EXCEPT !.components[i].is_memoized = TRUE]
                  ELSE [ex EXCEPT !.components = Append(@,
                          ComponentMeta(comp_name, "", TRUE, <<>>, <<>>, span_line(d.span)))]
         ELSE ex
    ELSE IF d.init.type \in {"Arrow", "Fn"} /\ is_component_name(d.sym)
    THEN [ex EXCEPT !.components = Append(@,
            ComponentMeta(d.sym, "", FALSE, <<>>, <<>>, span_line(d.span)))]
    ELSE ex

visit_import_decl(ex, import) ==
    [ex EXCEPT !.imports = Append(@,
        ImportMeta(import.src,
                   [i \in 1..Len(import.specifiers) |->
                        extract_import_specifier(import.specifiers[i])],
                   span_line(import.span)))]

\* the declarators of an exported variable declaration that bind an identifier
ExportedNames(decls, line) ==
    LET named == SelectSeq(decls, LAMBDA d : d.sym # "")
    IN  [i \in 1..Len(named) |-> ExportInfo(named[i].sym, "Named", line)]

visit_export_decl(ex, export) ==
    CASE export.decl.type = "FnDecl" ->
            [ex EXCEPT !.exports = Append(@,
                ExportInfo(export.decl.sym, "Named", span_line(export.span)))]
      [] export.decl.type = "VarDecl" ->
            [ex EXCEPT !.exports = @ \o ExportedNames(export.decl.decls, span_line(export.span))]
      [] OTHER -> ex

visit_export_default_expr(ex, e) ==
    [ex EXCEPT !.exports = Append(@, ExportInfo("default", "Default", span_line(e.span)))]

\* the children visit_children_with walks, in order
Children(node) ==
    CASE node.type = "FnDecl" -> node.body
      [] node.type = "VarDecl" -> node.decls
      [] node.type = "VarDeclarator" -> IF node.init.type = "NoInit" THEN <<>> ELSE <<node.init>>
      [] node.type = "Call" -> (IF node.callee.type = "Super" THEN <<>> ELSE <<node.callee>>) \o node.args
      [] node.type = "Member" -> <<node.obj>>
      [] node.type \in {"Arrow", "Fn"} -> node.body
      [] OTHER -> <<>>

RECURSIVE visit(_, _), visit_all(_, _)
\* Visit for MetadataExtractor: the overridden methods, the default walk elsewhere
visit(ex, node) ==
    CASE node.type = "FnDecl" -> visit_all(visit_fn_decl(ex, node), Children(node))
      [] node.type = "VarDeclarator" -> visit_all(visit_var_declarator(ex, node), Children(node))
      [] node.type = "ImportDecl" -> visit_import_decl(ex, node)
      [] node.type = "ExportDecl" -> visit_export_decl(ex, node)
      [] node.type = "ExportDefaultExpr" -> visit_export_default_expr(ex, node)
      [] OTHER -> visit_all(ex, Children(node))

visit_all(ex, nodes) ==
    IF Len(nodes) = 0 THEN ex ELSE visit_all(visit(ex, Head(nodes)), Tail(nodes))

(***************************************************************************)
(* The model's source texts and what the parser makes of them.             *)
(***************************************************************************)
SrcApp == "import React from 'react'; function App(props) {} export default App;"
SrcLayout == "function Header() {} const Footer = () => {}; export const helper = 1;"
SrcPlain == "const x = 1;"
SrcBroken == "function ( {"
SrcMemo == "function Foo() {} const Memoized = React.memo(Foo); export default Memoized;"
SrcMemoBar == "function Foo() {} const Memoized = memo(Foo); function Bar() {}"

Sources == {SrcApp, SrcLayout, SrcPlain, SrcBroken, SrcMemo, SrcMemoBar}

NoInit == [type |-> "NoInit"]

\* mutant: the parser recovers from the error with the tree of SrcApp
parse_Lenient(source) ==
    Some(<<FnDecl("App", 37, <<Param("Ident", "props", 41)>>, <<>>),
           ExportDefaultExpr(Ident("App", 66), 51)>>)

\* Parser::parse_module on the text: the module body, or an error
parse(source) ==
    CASE source = SrcApp ->
            Some(<<ImportDecl("react",
                       <<[kind |-> "Default", local |-> "React", imported |-> None]>>, 1),
                   FnDecl("App", 37, <<Param("Ident", "props", 41)>>, <<>>),
                   ExportDefaultExpr(Ident("App", 66), 51)>>)
      [] source = SrcLayout ->
            Some(<<FnDecl("Header", 10, <<>>, <<>>),
                   VarDecl(<<VarDeclarator("Footer", 28, Arrow(<<>>))>>),
                   ExportDecl(VarDecl(<<VarDeclarator("helper", 60, Lit(69))>>), 47)>>)
      [] source = SrcPlain ->
            Some(<<VarDecl(<<VarDeclarator("x", 7, Lit(11))>>)>>)
      [] source = SrcMemo ->
            Some(<<FnDecl("Foo", 10, <<>>, <<>>),
                   VarDecl(<<VarDeclarator("Memoized", 25,
                       Call(Member(Ident("React", 36), Ident("memo", 42)),
                            <<Ident("Foo", 47)>>))>>),
                   ExportDefaultExpr(Ident("Memoized", 68), 53)>>)
      [] source = SrcMemoBar ->
            Some(<<FnDecl("Foo", 10, <<>>, <<>>),
                   VarDecl(<<VarDeclarator("Memoized", 25,
                       Call(Ident("memo", 36), <<Ident("Foo", 41)>>))>>),
                   FnDecl("Bar", 56, <<>>, <<>>)>>)
      [] OTHER -> None

\* parse_module(source, filename): Some(module) or, on a parse error, None
parse_module(source, filename) == parse(source)

FileAnalysis(comps, imps, exps) ==
    [components |-> comps, imports |-> imps, exports |-> exps]

\* mutant: a module that parsed is not walked
extract_all_Empty(source, filename) == FileAnalysis(<<>>, <<>>, <<>>)

\* extract_all(source, filename): (components, imports, exports)
extract_all(source, filename) ==
    IF parse_module(source, filename) # None
    THEN LET ex == visit_all(NewExtractor, parse_module(source, filename)[2])
         IN  FileAnalysis(ex.components, ex.imports, ex.exports)
    ELSE FileAnalysis(<<>>, <<>>, <<>>)

(***************************************************************************)
(* SpecExtract: the extractor on its own.  The module body is a sequence   *)
(* of statements drawn from a pool, each at its place in the text; one     *)
(* step is the walk of extract_all over a module that parsed.              *)
(***************************************************************************)
MaxItems == 3

StatementKinds ==
    {"function Foo", "function helper", "export function Button", "nested Bar",
     "memo(Foo)", "React.memo(Foo)", "memo(helper)", "arrow Header", "export default Foo",
     "import React"}

\* the statement of a kind, placed at offset base of the text
Statement(kind, base) ==
    CASE kind = "function Foo" -> FnDecl("Foo", base + 10, <<Param("Ident", "props", base + 14)>>, <<>>)
      [] kind = "function helper" -> FnDecl("helper", base + 10, <<>>, <<>>)
      [] kind = "export function Button" ->
            ExportDecl(FnDecl("Button", base + 17, <<>>, <<>>), base + 1)
      [] kind = "nested Bar" ->
            FnDecl("outer", base + 10, <<>>, <<FnDecl("Bar", base + 29, <<>>, <<>>)>>)
      [] kind = "memo(Foo)" ->
            VarDecl(<<VarDeclarator("Memoized", base + 7,
                        Call(Ident("memo", base + 18), <<Ident("Foo", base + 23)>>))>>)
      [] kind = "React.memo(Foo)" ->
            VarDecl(<<VarDeclarator("Memoized", base + 7,
                        Call(Member(Ident("React", base + 18), Ident("memo", base + 24)),
                             <<Ident("Foo", base + 29)>>))>>)
      [] kind = "memo(helper)" ->
            VarDecl(<<VarDeclarator("wrapped", base + 7,
                        Call(Ident("memo", base + 17), <<Ident("helper", base + 22)>>))>>)
      [] kind = "arrow Header" -> VarDecl(<<VarDeclarator("Header", base + 7, Arrow(<<>>))>>)
      [] kind = "export default Foo" -> ExportDefaultExpr(Ident("Foo", base + 16), base + 1)
      [] OTHER ->
            ImportDecl("react", <<[kind |-> "Default", local |-> "React", imported |-> None]>>,
                       base + 1)

\* the module bodies of up to MaxItems different statements
ModuleBodies ==
    UNION { { [i \in 1..n |-> Statement(kinds[i], 100 * i)] :
                kinds \in { k \in [1..n -> StatementKinds] :
                              \A i, j \in 1..n : i # j => k[i] # k[j] } } :
            n \in 1..MaxItems }

\* extract_all, from module.visit_with(&mut ex) on
extract ==
    /\ extraction = None
    /\ module_body # <<>>
    /\ extraction' = Some(visit_all(NewExtractor, module_body))
    /\ UNCHANGED <<cache_vars, log_vars, race_vars, index_vars, walk_vars, module_body>>

InitExtract ==
    /\ memory_cache = EmptyMap
    /\ version = "1.0"
    /\ dir_exists = TRUE
    /\ disk = EmptyMap
    /\ now = 0
    /\ calls = 0
    /\ last_on = [p \in TestPaths |-> NoCall]
    /\ last_get = NoGet
    /\ persisted = EmptyMap
    /\ worker = [w \in Workers |-> IdleWorker]
    /\ IndexIdle
    /\ walk_root = <<>>
    /\ walk_entries = {}
    /\ walk_out = None
    /\ module_body \in ModuleBodies
    /\ extraction = None

NextExtract == extract

SpecExtract == InitExtract /\ [][NextExtract]_vars

\* the nodes directly below a node in the syntax tree
SubNodes(node) ==
    CASE node.type = "ExportDecl" -> <<node.decl>>
      [] node.type = "ExportDefaultExpr" -> <<node.expr>>
      [] OTHER -> Children(node)

RECURSIVE FnDecls(_)
\* the function declarations anywhere in the trees of nodes
FnDecls(nodes) ==
    IF Len(nodes) = 0 THEN {}
    ELSE (IF Head(nodes).type = "FnDecl" THEN {Head(nodes)} ELSE {})
         \cup FnDecls(SubNodes(Head(nodes))) \cup FnDecls(Tail(nodes))

\* C15: for every function declaration of the tree with an uppercase initial,
\* at top level, inside an export declaration or nested, the component list
\* has a record of that name; a declaration with a lowercase initial yields
\* no record.
C15_EveryComponentEmitted ==
    extraction # None =>
        \A func \in FnDecls(module_body) :
            LET recorded == { i \in 1..Len(extraction[2].components) :
                                /\ extraction[2].components[i].name = func.sym
                                /\ extraction[2].components[i].line = span_line(func.span) }
            IN  IF is_component_name(func.sym) THEN recorded # {} ELSE recorded = {}

\* C21: every record of the component list has a name whose first character
\* is an uppercase letter, whichever rule recorded it: a function declaration,
\* a function or arrow initializer, or a memo-wrapper call.
C21_ComponentNamesUppercase ==
    extraction # None =>
        \A i \in 1..Len(extraction[2].components) :
            is_component_name(extraction[2].components[i].name)

\* the statement declares a variable whose initializer is memo(name) or
\* React.memo(name)
WrapsWithMemo(node, name) ==
    /\ node.type = "VarDecl"
    /\ \E i \in 1..Len(node.decls) :
          LET init == node.decls[i].init IN
          /\ init.type = "Call"
          /\ is_identifier_react_memo(init.callee)
          /\ Len(init.args) > 0
          /\ expr_ident_name(init.args[1]) = Some(name)

\* C22: when the module declares the function component Foo and a memo
\* wrapper of Foo, in either order, the component list has exactly one record
\* named Foo and that record is memoized.
C22_OrderIndependent ==
    extraction # None =>
        \A i, j \in 1..Len(module_body) :
            (/\ module_body[i].type = "FnDecl"
             /\ module_body[i].sym = "Foo"
             /\ WrapsWithMemo(module_body[j], "Foo")) =>
                LET named == { k \in 1..Len(extraction[2].components) :
                                 extraction[2].components[k].name = "Foo" }
                IN  /\ Cardinality(named) = 1
                    /\ \A k \in named : extraction[2].components[k].is_memoized

(***************************************************************************)
(* analyzer/metadata.rs: the project on disk and its enumeration.          *)
(***************************************************************************)
\* the entries WalkDir yields under the project root
Tree ==
    { [path |-> "proj/src", components |-> <<"proj", "src">>, ext |-> "", is_file |-> FALSE],
      [path |-> "proj/src/App.tsx", components |-> <<"proj", "src", "App.tsx">>,
       ext |-> "tsx", is_file |-> TRUE],
      [path |-> "proj/src/Layout.jsx", components |-> <<"proj", "src", "Layout.jsx">>,
       ext |-> "jsx", is_file |-> TRUE],
      [path |-> "proj/node_modules/lib/index.js",
       components |-> <<"proj", "node_modules", "lib", "index.js">>,
       ext |-> "js", is_file |-> TRUE],
      [path |-> "proj/README.md", components |-> <<"proj", "README.md">>,
       ext |-> "md", is_file |-> TRUE] }

\* mutant: target is not on the list
Denylist_NoTarget == {"node_modules", "dist", "build", ".git"}

Denylist == {"node_modules", "dist", "build", ".git", "target"}
SourceExtensions == {"ts", "tsx", "js", "jsx"}

\* find_all_source_files(root): the paths pushed to out
find_all_source_files(tree) ==
    { e.path : e \in { x \in tree :
        /\ x.is_file
        /\ ~(\E i \in 1..Len(x.components) : x.components[i] \in Denylist)
        /\ x.ext \in SourceExtensions } }

Files == find_all_source_files(Tree)

\* what std::fs::read_to_string finds for a file that cannot be read
Unreadable == "<io error>"

\* mutant: a file that cannot be read is taken to be empty
read_to_string_OrEmpty(text) == IF text = Unreadable THEN <<"Ok", "">> ELSE <<"Ok", text>>

\* std::fs::read_to_string(file_path) on a file that holds text
read_to_string(text) == IF text = Unreadable THEN <<"Err">> ELSE <<"Ok", text>>

(***************************************************************************)
(* SpecWalk: find_all_source_files on its own.  The root and the entries   *)
(* under it are drawn from a pool; one step is the call.                   *)
(***************************************************************************)
\* roots: a plain one, and one that lies under a directory named build
WalkRoots == {<<"proj">>, <<"build", "proj">>}

\* an entry WalkDir yields: the components of its path (the root's first),
\* the extension of its last component, and whether it is a regular file
WalkEntry(rt, rel, ext, is_file) ==
    [path |-> rt \o rel, components |-> rt \o rel, ext |-> ext, is_file |-> is_file]

WalkPool(rt) ==
    { WalkEntry(rt, <<"src", "App.tsx">>, "tsx", TRUE),
      WalkEntry(rt, <<"src", "util.ts">>, "ts", TRUE),
      WalkEntry(rt, <<"node_modules", "lib", "index.js">>, "js", TRUE),
      WalkEntry(rt, <<"dist", "bundle.js">>, "js", TRUE),
      WalkEntry(rt, <<"README.md">>, "md", TRUE),
      WalkEntry(rt, <<"src", "lib.js">>, "js", FALSE),
      WalkEntry(rt, <<"src", "target", "gen.jsx">>, "jsx", TRUE) }

\* let files = find_all_source_files(root)
walk ==
    /\ walk_out = None
    /\ walk_root # <<>>
    /\ walk_out' = Some(find_all_source_files(walk_entries))
    /\ UNCHANGED <<cache_vars, log_vars, race_vars, index_vars, walk_root, walk_entries,
                   visit_vars>>

InitWalk ==
    /\ memory_cache = EmptyMap
    /\ version = "1.0"
    /\ dir_exists = TRUE
    /\ disk = EmptyMap
    /\ now = 0
    /\ calls = 0
    /\ last_on = [p \in TestPaths |-> NoCall]
    /\ last_get = NoGet
    /\ persisted = EmptyMap
    /\ worker = [w \in Workers |-> IdleWorker]
    /\ IndexIdle
    /\ walk_root \in WalkRoots
    /\ walk_entries \in SUBSET WalkPool(walk_root)
    /\ walk_out = None
    /\ module_body = <<>>
    /\ extraction = None

NextWalk == walk

SpecWalk == InitWalk /\ [][NextWalk]_vars

\* C14: find_all_source_files returns exactly the regular files under the root
\* whose extension is ts, tsx, js or jsx and whose path has no component named
\* node_modules, dist, build, .git or target; no file under a directory of
\* one of these names is returned.
C14_ExclusionFiltering ==
    walk_out # None =>
        /\ \A e \in walk_entries :
              (e.path \in walk_out[2]) <=>
                  /\ e.is_file
                  /\ e.ext \in {"ts", "tsx", "js", "jsx"}
                  /\ \A i \in 1..Len(e.components) :
                        e.components[i] \notin {"node_modules", "dist", "build", ".git", "target"}
        /\ \A path \in walk_out[2] : \E e \in walk_entries : e.path = path

C14_Witness ==
    /\ walk_out # None
    /\ walk_root = <<"proj">>
    /\ <<"proj", "src", "App.tsx">> \in walk_out[2]
    /\ \E e \in walk_entries : e.components = <<"proj", "node_modules", "lib", "index.js">>
    /\ \E e \in walk_entries : e.components = <<"proj", "src", "target", "gen.jsx">>
    /\ Cardinality(walk_out[2]) = 1

(***************************************************************************)
(* analyzer/metadata.rs: MetadataGraph::index_project_with_cache.  One     *)
(* task per enumerated file runs the closure of for_each; a step is one    *)
(* statement of the closure.  The tasks touch different cache files, so    *)
(* fs::write is one step here.                                             *)
(***************************************************************************)
MaxRuns == 2

\* the version the indexer gives its cache
IndexerVersion == "0.6.0"

\* DashMap::insert(key, value) on a map of the graph
graph_insert_Lossy(map, key, value) == [k \in {key} |-> value]

\* mutant: an occupied slot keeps its value
graph_insert_KeepFirst(map, key, value) ==
    IF key \in DOMAIN map THEN map ELSE Insert(map, key, value)

graph_insert(map, key, value) == Insert(map, key, value)

\* a task outside the closure, and one that has left it
IdleTask == [pc |-> "idle", source |-> "", analysis |-> <<>>, pending |-> <<>>]
DoneTask == [pc |-> "done", source |-> "", analysis |-> <<>>, pending |-> <<>>]

\* for_each returns when the closure has returned for every file
for_each_done_Any(tk) == \E f \in DOMAIN tk : tk[f].pc = "done"

for_each_done(tk) == \A f \in DOMAIN tk : tk[f].pc = "done"

\* mutant: the closure finds a cache whatever use_cache is
has_cache_Always(uc) == TRUE

\* metadata.rs 71-75 and 80: `if let Some(ref cache) = cache`, cache being
\* Some exactly when use_cache
has_cache(uc) == uc

\* what a later run remembers of the run that has returned
RunSummary ==
    [valid |-> TRUE, use_cache |-> use_cache, components |-> components, imports |-> imports,
     exports |-> exports, write_failed |-> write_failed, json |-> json]

\* metadata.rs 63-75: the files are enumerated, the maps created empty, and
\* with use_cache a new cache instance is built on temp_dir/perf_linter_cache;
\* a run starts later than the run before it
index_start(uc) ==
    /\ phase \in {"idle", "returned"}
    /\ runs < MaxRuns
    /\ runs' = runs + 1
    /\ phase' = "running"
    /\ use_cache' = uc
    /\ task' = [f \in Files |-> [IdleTask EXCEPT !.pc = "read"]]
    /\ components' = EmptyMap
    /\ imports' = EmptyMap
    /\ exports' = EmptyMap
    /\ extracted' = {}
    /\ cache_calls' = {}
    /\ found_bad' = {}
    /\ write_failed' = {}
    /\ json' = <<>>
    /\ prev' = IF phase = "returned" /\ ~edited THEN RunSummary ELSE NoRun
    /\ edited' = FALSE
    /\ query' = NoQuery
    /\ memory_cache' = EmptyMap
    /\ version' = IndexerVersion
    /\ dir_exists' = (dir_exists \/ uc)
    /\ now' = IF now < MaxTime THEN now + 1 ELSE now
    /\ UNCHANGED <<disk, source_text, log_vars, race_vars, walk_vars, visit_vars>>

\* metadata.rs 78: read_to_string; the closure does nothing for a file that
\* cannot be read
task_read(f) ==
    /\ task[f].pc = "read"
    /\ task' = [task EXCEPT ![f] =
                  IF read_to_string(source_text[f])[1] = "Err" THEN DoneTask
                  ELSE [@ EXCEPT !.source = read_to_string(source_text[f])[2],
                                 !.pc = IF has_cache(use_cache) THEN "get"
                                                                   ELSE "extract"]]
    /\ UNCHANGED <<cache_vars, log_vars, race_vars, walk_vars, visit_vars, source_text, edited, runs, phase,
                   use_cache, graph_vars, extracted, cache_calls, found_bad, write_failed, json, prev, query>>

\* metadata.rs 81-82: cache.get(file_path, &source)
task_get(f) ==
    LET out == get_outcome(memory_cache, disk, version, f, task[f].source) IN
    /\ task[f].pc = "get"
    /\ memory_cache' = out.memory
    /\ task' = [task EXCEPT ![f] =
                  IF out.result = None THEN [@ EXCEPT !.pc = "extract"]
                  ELSE [@ EXCEPT !.pc = "imports", !.analysis = out.result[2]]]
    /\ cache_calls' = cache_calls \cup {<<"get", f>>}
    /\ found_bad' = IF disk_entry_bad(disk, get_cache_path(f, version),
                                      hash_content(task[f].source))
                    THEN found_bad \cup {f} ELSE found_bad
    /\ UNCHANGED <<version, dir_exists, disk, now, log_vars, race_vars, walk_vars, visit_vars, source_text, edited,
                   runs, phase, use_cache, graph_vars, extracted, write_failed, json, prev, query>>

\* metadata.rs 84 and 94: extract_all(&source, file_path)
task_extract(f) ==
    /\ task[f].pc = "extract"
    /\ task' = [task EXCEPT ![f] =
                  [@ EXCEPT !.analysis = extract_all(task[f].source, f),
                            !.pc = IF has_cache(use_cache) THEN "set" ELSE "imports"]]
    /\ extracted' = extracted \cup {f}
    /\ UNCHANGED <<cache_vars, log_vars, race_vars, walk_vars, visit_vars, source_text, edited, runs, phase,
                   use_cache, graph_vars, cache_calls, found_bad, write_failed, json, prev, query>>

\* metadata.rs 86-90: cache.set(file_path, &source, FileAnalysis {..}); the
\* outcome of the write is dropped by set
task_set(f, io) ==
    LET entry == CacheEntry(hash_content(task[f].source), current_timestamp,
                            task[f].analysis)
    IN
    /\ task[f].pc = "set"
    /\ memory_cache' = set_memory(memory_cache, f, entry)
    /\ disk' = fs_write(disk, dir_exists, get_cache_path(f, version), to_string(entry), io)
    /\ write_failed' = IF io = "ok" THEN write_failed ELSE write_failed \cup {f}
    /\ task' = [task EXCEPT ![f].pc = "imports"]
    /\ cache_calls' = cache_calls \cup {<<"set", f>>}
    /\ UNCHANGED found_bad
    /\ UNCHANGED <<version, dir_exists, now, log_vars, race_vars, walk_vars, visit_vars, source_text, edited, runs,
                   phase, use_cache, graph_vars, extracted, json, prev, query>>

\* metadata.rs 97-99: imports.insert when the list is not empty
task_imports(f) ==
    /\ task[f].pc = "imports"
    /\ imports' = IF task[f].analysis.imports # <<>>
                  THEN graph_insert(imports, f, task[f].analysis.imports)
                  ELSE imports
    /\ task' = [task EXCEPT ![f].pc = "exports"]
    /\ UNCHANGED <<cache_vars, log_vars, race_vars, walk_vars, visit_vars, source_text, edited, runs, phase,
                   use_cache, components, exports, extracted, cache_calls, found_bad, write_failed, json, prev, query>>

\* metadata.rs 100-102: exports.insert when the list is not empty; the loop
\* over comps.drain(..) starts
task_exports(f) ==
    /\ task[f].pc = "exports"
    /\ exports' = IF task[f].analysis.exports # <<>>
                  THEN graph_insert(exports, f, task[f].analysis.exports)
                  ELSE exports
    /\ task' = [task EXCEPT ![f] =
                  IF task[f].analysis.components = <<>> THEN DoneTask
                  ELSE [@ EXCEPT !.pc = "components",
                                 !.pending = task[f].analysis.components]]
    /\ UNCHANGED <<cache_vars, log_vars, race_vars, walk_vars, visit_vars, source_text, edited, runs, phase,
                   use_cache, components, imports, extracted, cache_calls, found_bad, write_failed, json, prev, query>>

\* mutant: the component is inserted as the extractor made it
attach_Nothing(c, file_path, exps) == c

\* metadata.rs 105-108: c.file_path = file_path.clone(); c.exports = the
\* file's export list
attach(c, file_path, exps) == [c EXCEPT !.file_path = file_path, !.exports = exps]

\* metadata.rs 104-110: one turn of the loop: the component gets the file's
\* path and exports and replaces the file's slot
task_component(f) ==
    LET comp == attach(Head(task[f].pending), f, task[f].analysis.exports) IN
    /\ task[f].pc = "components"
    /\ components' = graph_insert(components, f, comp)
    /\ task' = [task EXCEPT ![f] =
                  IF Len(task[f].pending) = 1 THEN DoneTask
                  ELSE [@ EXCEPT !.pending = Tail(task[f].pending)]]
    /\ UNCHANGED <<cache_vars, log_vars, race_vars, walk_vars, visit_vars, source_text, edited, runs, phase,
                   use_cache, imports, exports, extracted, cache_calls, found_bad, write_failed, json, prev, query>>

\* metadata.rs 112-118: for_each has returned; the graph is handed to the
\* caller and the cache instance is dropped
index_return ==
    /\ phase = "running"
    /\ for_each_done(task)
    /\ phase' = "returned"
    /\ memory_cache' = EmptyMap
    /\ UNCHANGED <<version, dir_exists, disk, now, log_vars, race_vars, walk_vars, visit_vars, source_text, edited,
                   runs, use_cache, task, graph_vars, extracted, cache_calls, found_bad, write_failed, json, prev, query>>

\* the sequences that list the entries of map once each: the orders in which
\* a HashMap built with a fresh RandomState can be iterated
Orderings(map) ==
    LET n == Cardinality(DOMAIN map) IN
    { [i \in 1..n |-> <<order[i], map[order[i]]>>] :
        order \in { o \in [1..n -> DOMAIN map] :
                      \A i, j \in 1..n : i # j => o[i] # o[j] } }

\* serde_json::to_string(&GraphSnapshot {..}): the three fields in declared
\* order, each map's entries in the map's iteration order
Snapshots(comps, imps, exps) ==
    { <<"components", c, "imports", i, "exports", e>> :
        c \in Orderings(comps), i \in Orderings(imps), e \in Orderings(exps) }

\* metadata.rs 132-149: to_json, called by the holder of the returned graph
to_json ==
    /\ phase = "returned"
    /\ json = <<>>
    /\ json' \in Snapshots(components, imports, exports)
    /\ UNCHANGED <<cache_vars, log_vars, race_vars, walk_vars, visit_vars, source_text, edited, runs, phase,
                   use_cache, task, graph_vars, extracted, cache_calls, found_bad, write_failed, prev, query>>

\* mutant: the scan stops at the first entry, matching or not
get_memo_boundary_FirstEntry(entries, symbol) ==
    IF Len(entries) > 0
       /\ \E k \in 1..Len(entries[1][2].exports) : entries[1][2].exports[k].name = symbol
    THEN Some(entries[1][2]) ELSE None

\* get_memo_boundary(symbol) when self.components.iter() yields entries: the
\* value of the first entry whose exports have one named symbol
get_memo_boundary(entries, symbol) ==
    LET matching == { i \in 1..Len(entries) :
                        \E k \in 1..Len(entries[i][2].exports) :
                            entries[i][2].exports[k].name = symbol }
    IN  IF matching = {} THEN None
        ELSE Some(entries[CHOOSE i \in matching : \A j \in matching : i <= j][2])

\* mutant: a file without an entry counts as memoized
is_component_memoized_AbsentTrue(comps, file) ==
    IF file \in DOMAIN comps THEN comps[file].is_memoized ELSE TRUE

\* self.components.get(file).map(|c| c.is_memoized).unwrap_or(false)
is_component_memoized(comps, file) ==
    IF file \in DOMAIN comps THEN comps[file].is_memoized ELSE FALSE

\* the symbols and files the holder of the graph asks about; the queries
\* only read the graph, and the model has one per returned graph
Symbols == {"default", "helper", "Button"}
QueryFiles == Files \cup {"proj/README.md"}

\* graph.get_memo_boundary(symbol) on the returned graph
query_memo_boundary(symbol) ==
    /\ phase = "returned"
    /\ query.op = "none"
    /\ \E entries \in Orderings(components) :
          query' = [op |-> "get_memo_boundary", arg |-> symbol,
                    result |-> get_memo_boundary(entries, symbol)]
    /\ UNCHANGED <<cache_vars, log_vars, race_vars, walk_vars, visit_vars, source_text, edited,
                   runs, phase, use_cache, task, graph_vars, extracted, cache_calls, found_bad,
                   write_failed, json, prev>>

\* graph.is_component_memoized(file) on the returned graph
query_memoized(file) ==
    /\ phase = "returned"
    /\ query.op = "none"
    /\ query' = [op |-> "is_component_memoized", arg |-> file,
                 result |-> is_component_memoized(components, file)]
    /\ UNCHANGED <<cache_vars, log_vars, race_vars, walk_vars, visit_vars, source_text, edited,
                   runs, phase, use_cache, task, graph_vars, extracted, cache_calls, found_bad,
                   write_failed, json, prev>>

\* the texts a file of the project takes in the model
TextsOf(f) ==
    IF f = "proj/src/App.tsx" THEN {SrcApp, SrcMemoBar, SrcPlain}
    ELSE {SrcLayout, SrcMemo, SrcBroken}

\* a source file is rewritten, or its permissions change, between two runs
edit(f, text) ==
    /\ phase = "returned"
    /\ runs < MaxRuns
    /\ ~edited
    /\ text \in TextsOf(f) \cup {Unreadable}
    /\ source_text[f] # text
    /\ source_text' = [source_text EXCEPT ![f] = text]
    /\ edited' = TRUE
    /\ UNCHANGED <<cache_vars, log_vars, race_vars, walk_vars, visit_vars, runs, phase, use_cache, task,
                   graph_vars, extracted, cache_calls, found_bad, write_failed, json, prev, query>>

\* a project on disk, nothing indexed yet, temp_dir without a cache directory
InitIndex ==
    /\ memory_cache = EmptyMap
    /\ version = IndexerVersion
    /\ dir_exists = FALSE
    /\ disk = EmptyMap
    /\ now = 0
    /\ calls = 0
    /\ last_on = EmptyMap
    /\ last_get = NoGet
    /\ persisted = EmptyMap
    /\ worker = [w \in Workers |-> IdleWorker]
    /\ source_text \in { st \in [Files -> Sources \cup {Unreadable}] :
                            \A f \in Files : st[f] \in TextsOf(f) \cup {Unreadable} }
    /\ edited = FALSE
    /\ runs = 0
    /\ phase = "idle"
    /\ use_cache = FALSE
    /\ task = [f \in Files |-> IdleTask]
    /\ components = EmptyMap
    /\ imports = EmptyMap
    /\ exports = EmptyMap
    /\ extracted = {}
    /\ cache_calls = {}
    /\ found_bad = {}
    /\ write_failed = {}
    /\ json = <<>>
    /\ prev = NoRun
    /\ query = NoQuery
    /\ PureIdle

NextIndex ==
    \/ \E uc \in BOOLEAN : index_start(uc)
    \/ \E f \in Files : task_read(f)
    \/ \E f \in Files : task_get(f)
    \/ \E f \in Files : task_extract(f)
    \/ \E f \in Files, io \in IoOutcomes : task_set(f, io)
    \/ \E f \in Files : task_imports(f)
    \/ \E f \in Files : task_exports(f)
    \/ \E f \in Files : task_component(f)
    \/ index_return
    \/ to_json
    \/ \E symbol \in Symbols : query_memo_boundary(symbol)
    \/ \E file \in QueryFiles : query_memoized(file)
    \/ \E f \in Files, text \in Sources \cup {Unreadable} : edit(f, text)

SpecIndex == InitIndex /\ [][NextIndex]_vars

(***************************************************************************)
(* Claims about the indexer, under SpecIndex.                              *)
(***************************************************************************)
\* the run follows a run of the same unchanged project, both with the cache
SecondCachedRun == phase # "idle" /\ prev.valid /\ prev.use_cache /\ use_cache

C8_ByteIdenticalSnapshots ==
    (SecondCachedRun /\ phase = "returned" /\ json # <<>> /\ prev.json # <<>>) =>
        /\ components = prev.components
        /\ imports = prev.imports
        /\ exports = prev.exports
        /\ json = prev.json

\* C9: once index_project_with_cache has returned, the task of every
\* enumerated file has left the closure, and nothing is inserted into the
\* graph the caller holds.
C9_ReturnIsBarrier ==
    /\ [](phase = "returned" => for_each_done(task))
    /\ [][(phase = "returned" /\ phase' = "returned") => UNCHANGED graph_vars]_vars

C9_Witness ==
    /\ phase = "returned"
    /\ Cardinality(DOMAIN components) = 2
    /\ json # <<>>

\* the entry the loop of metadata.rs 104-110 leaves in the file's slot
LastComponent(f, analysis) ==
    [analysis.components[Len(analysis.components)] EXCEPT
        !.file_path = f, !.exports = analysis.exports]

\* C10: when the task of a readable file has finished, and from then on
\* whatever the other tasks do, imports[f] is the file's import list when it
\* is not empty, exports[f] its export list when it is not empty, and
\* components[f] the file's last component when it has one.
C10_NoInsertLost ==
    \A f \in Files :
        (phase # "idle" /\ ~edited /\ task[f].pc = "done" /\ source_text[f] # Unreadable) =>
            LET analysis == extract_all(source_text[f], f) IN
            /\ analysis.imports # <<>> =>
                  f \in DOMAIN imports /\ imports[f] = analysis.imports
            /\ analysis.exports # <<>> =>
                  f \in DOMAIN exports /\ exports[f] = analysis.exports
            /\ analysis.components # <<>> =>
                  f \in DOMAIN components /\ components[f] = LastComponent(f, analysis)

C10_Witness ==
    /\ phase = "returned"
    /\ ~edited
    /\ Cardinality(DOMAIN components) = 2
    /\ Cardinality(DOMAIN exports) = 2
    /\ DOMAIN imports # {}

\* the module declares a function component and, in a later statement, a
\* variable whose initializer is React.memo(..) or memo(..) of its name
DeclaresMemoized(body) ==
    \E i, j \in 1..Len(body) :
        /\ i < j
        /\ body[i].type = "FnDecl" /\ is_component_name(body[i].sym)
        /\ body[j].type = "VarDecl"
        /\ \E k \in 1..Len(body[j].decls) :
              LET init == body[j].decls[k].init IN
              /\ init.type = "Call"
              /\ is_identifier_react_memo(init.callee)
              /\ Len(init.args) > 0
              /\ init.args[1] = Ident(body[i].sym, init.args[1].span)

\* C11: after indexing, is_component_memoized is true of every readable file
\* that declares a component Foo and later `const Memoized = React.memo(Foo)`
\* or `memo(Foo)`, whatever else the file declares.
C11_MemoizationLinked ==
    \A f \in Files :
        (phase = "returned" /\ ~edited /\ source_text[f] # Unreadable
         /\ parse(source_text[f]) # None
         /\ DeclaresMemoized(parse(source_text[f])[2])) =>
            is_component_memoized(components, f)

\* the texts of the model that have a syntax error
SyntaxErrors == {SrcBroken}

\* the maps hold what the extractor yields for g
EntriesPresent(g) ==
    LET analysis == extract_all(source_text[g], g) IN
    /\ (g \in DOMAIN imports) = (analysis.imports # <<>>)
    /\ (g \in DOMAIN exports) = (analysis.exports # <<>>)
    /\ (g \in DOMAIN components) = (analysis.components # <<>>)
    /\ g \in DOMAIN imports => imports[g] = analysis.imports
    /\ g \in DOMAIN exports => exports[g] = analysis.exports
    /\ g \in DOMAIN components => components[g] = LastComponent(g, analysis)

\* C12: a file with a syntax error yields three empty lists from extract_all
\* and has no entry in components, imports or exports once its task is done;
\* the run returns with the entries of every other readable file in place.
C12_ParseFailureContained ==
    \A f \in Files :
        (phase # "idle" /\ ~edited /\ task[f].pc = "done"
         /\ source_text[f] \in SyntaxErrors) =>
            /\ extract_all(source_text[f], f) = FileAnalysis(<<>>, <<>>, <<>>)
            /\ f \notin DOMAIN components \cup DOMAIN imports \cup DOMAIN exports
            /\ phase = "returned" =>
                  \A g \in Files \ {f} : source_text[g] # Unreadable => EntriesPresent(g)

C12_Witness ==
    /\ phase = "returned"
    /\ ~edited
    /\ \E f, g \in Files :
          /\ source_text[f] \in SyntaxErrors
          /\ source_text[g] = SrcApp
          /\ g \in DOMAIN components /\ g \in DOMAIN imports /\ g \in DOMAIN exports

\* C13: a file that cannot be read has no entry in components, imports or
\* exports, no cache get or set is made for it and the extractor is not run on
\* it; the run returns with the entries of every other readable file in place.
C13_UnreadableSkipped ==
    \A f \in Files :
        (phase # "idle" /\ ~edited /\ source_text[f] = Unreadable) =>
            /\ f \notin DOMAIN components \cup DOMAIN imports \cup DOMAIN exports
            /\ <<"get", f>> \notin cache_calls /\ <<"set", f>> \notin cache_calls
            /\ f \notin extracted
            /\ phase = "returned" =>
                  \A g \in Files \ {f} : source_text[g] # Unreadable => EntriesPresent(g)

C13_Witness ==
    /\ phase = "returned"
    /\ ~edited
    /\ use_cache
    /\ \E f, g \in Files :
          /\ source_text[f] = Unreadable
          /\ source_text[g] = SrcLayout
          /\ <<"set", g>> \in cache_calls
          /\ g \in DOMAIN components /\ g \in DOMAIN exports

\* the cache file of f holds the entry of what the extractor yields for f's
\* present text
DiskHoldsFresh(f) ==
    LET cache_path == get_cache_path(f, version) IN
    /\ cache_path \in DOMAIN disk
    /\ from_str(disk[cache_path])[1] = "Ok"
    /\ from_str(disk[cache_path])[2].content_hash = hash_content(source_text[f])
    /\ from_str(disk[cache_path])[2].data = extract_all(source_text[f], f)

\* the get of f's task met a bad cache file, found nothing, and the task went
\* on to the extractor and to set
RecomputedAfterBadEntry(f) ==
    /\ f \in found_bad
    /\ ~edited
    /\ \/ task[f].pc \in {"extract", "set"}
       \/ f \in extracted /\ <<"set", f>> \in cache_calls

EntriesExporting(symbol) ==
    { components[f] : f \in { g \in DOMAIN components :
        \E k \in 1..Len(components[g].exports) : components[g].exports[k].name = symbol } }

\* C18: get_memo_boundary(symbol) on a returned graph returns one of the
\* component entries that have an export named symbol when there is one, and
\* no result exactly when there is none.
C18_MemoBoundaryFound ==
    (phase = "returned" /\ query.op = "get_memo_boundary") =>
        IF EntriesExporting(query.arg) = {} THEN query.result = None
        ELSE query.result # None /\ query.result[2] \in EntriesExporting(query.arg)

C18_Witness ==
    /\ phase = "returned"
    /\ query.op = "get_memo_boundary"
    /\ query.arg = "default"
    /\ Cardinality(EntriesExporting("default")) = 2
    /\ query.result # None
    /\ query.result[2].name = "Foo"

\* C19: is_component_memoized(file) on a returned graph is true exactly when
\* components has an entry under file whose is_memoized is true; it is false
\* for a file that was not enumerated, could not be read, did not parse or has
\* no component.
C19_MemoizedFlagOfSlot ==
    (phase = "returned" /\ query.op = "is_component_memoized") =>
        /\ query.result \in BOOLEAN
        /\ query.result <=>
              \E f \in DOMAIN components : f = query.arg /\ components[f].is_memoized
        /\ (~edited /\ (query.arg \notin Files
                        \/ source_text[query.arg] \in {Unreadable, SrcBroken, SrcPlain})) =>
              query.result = FALSE

C19_Witness ==
    /\ phase = "returned"
    /\ query.op = "is_component_memoized"
    /\ ~edited
    /\ query.arg \in Files
    /\ source_text[query.arg] = SrcMemo
    /\ query.result = TRUE
    /\ \E f \in DOMAIN components : ~components[f].is_memoized

\* C20: a run with use_cache = false makes no cache get or set, runs the
\* extractor once on every readable enumerated file, and leaves the memory
\* tier, the cache directory and its files, those of earlier runs included,
\* as they were.
C20_NoCacheRunLeavesCache ==
    /\ []((phase # "idle" /\ ~use_cache) =>
            /\ cache_calls = {}
            /\ \A f \in Files :
                  /\ f \in extracted => task[f].pc \notin {"read", "get", "extract", "set"}
                  /\ (phase = "returned" /\ ~edited) =>
                        (f \in extracted <=> source_text[f] # Unreadable))
    /\ [][((phase' = "running" /\ ~use_cache') \/ (phase = "running" /\ ~use_cache)) =>
            /\ disk' = disk
            /\ dir_exists' = dir_exists
            /\ memory_cache' = memory_cache]_vars

C20_Witness ==
    /\ phase = "returned"
    /\ ~use_cache
    /\ ~edited
    /\ prev.valid /\ prev.use_cache
    /\ Cardinality(DOMAIN disk) = 2
    /\ Cardinality(extracted) = 2

\* the record the indexer makes of a component of the file's extraction list
Attached(f, analysis, i) ==
    [analysis.components[i] EXCEPT !.file_path = f, !.exports = analysis.exports]

\* C23: each turn of the loop puts the next component of the file's
\* extraction list in the file's slot and touches no other slot; in the
\* returned graph the slot of a file holds the last component of its
\* extraction list, and no slot holds an earlier component of the file.
C23_SingleSlotLastWins ==
    /\ [][\A f \in Files :
            (task[f].pc = "components" /\ task'[f] # task[f]) =>
                /\ task[f].pending # <<>>
                /\ components'[f] = [Head(task[f].pending) EXCEPT
                                        !.file_path = f,
                                        !.exports = task[f].analysis.exports]
                /\ DOMAIN components' = DOMAIN components \cup {f}
                /\ \A g \in DOMAIN components \ {f} : components'[g] = components[g]
                /\ \/ task'[f].pc = "done" /\ Len(task[f].pending) = 1
                   \/ task'[f].pc = "components" /\ task'[f].pending = Tail(task[f].pending)]_vars
    /\ [](\A f \in Files :
            (phase = "returned" /\ ~edited /\ source_text[f] # Unreadable) =>
                LET analysis == extract_all(source_text[f], f)
                    n == Len(analysis.components)
                IN  IF n = 0 THEN f \notin DOMAIN components
                    ELSE /\ f \in DOMAIN components
                         /\ components[f] = Attached(f, analysis, n)
                         /\ \A i \in 1..(n - 1), g \in DOMAIN components :
                               components[g] # Attached(f, analysis, i))

C23_Witness ==
    /\ phase = "returned"
    /\ ~edited
    /\ \E f \in DOMAIN components :
          /\ source_text[f] # Unreadable
          /\ Len(extract_all(source_text[f], f).components) = 2
          /\ components[f].name = extract_all(source_text[f], f).components[2].name

\* C25: in a returned graph every entry of the component map carries its key
\* as file_path and, as exports, the export map's entry for that key, or the
\* empty list when the export map has none; no key of the import map or of
\* the export map maps to an empty list.
C25_EntriesConsistent ==
    phase = "returned" =>
        /\ \A f \in DOMAIN components :
              /\ components[f].file_path = f
              /\ components[f].exports = IF f \in DOMAIN exports THEN exports[f] ELSE <<>>
        /\ \A f \in DOMAIN imports : imports[f] # <<>>
        /\ \A f \in DOMAIN exports : exports[f] # <<>>

C25_Witness ==
    /\ phase = "returned"
    /\ \E f, g \in DOMAIN components :
          /\ f \in DOMAIN exports
          /\ components[f].exports = exports[f]
          /\ components[f].file_path = f
          /\ g \notin DOMAIN exports
          /\ components[g].exports = <<>>
          /\ components[g].file_path = g

\* the files of the project whose text can be read and for which the
\* extractor's list named by field is not empty
FilesWith(field) ==
    { f \in Files : /\ source_text[f] # Unreadable
                    /\ extract_all(source_text[f], f)[field] # <<>> }

\* the maps index_project_with_cache(root, false) returns for the project's
\* texts: the closure's inserts with extract_all called on every readable file
UncachedGraph ==
    [components |-> [f \in FilesWith("components") |->
                        LastComponent(f, extract_all(source_text[f], f))],
     imports |-> [f \in FilesWith("imports") |-> extract_all(source_text[f], f).imports],
     exports |-> [f \in FilesWith("exports") |-> extract_all(source_text[f], f).exports]]

\* C26: the maps a run returns for the project's texts are those of a run
\* without the cache, whether the run used the cache or not and whatever the
\* earlier runs left in the cache directory; a run that follows a run of the
\* unchanged project with the other setting of use_cache returns equal maps.
C26_CacheTransparent ==
    (phase = "returned" /\ ~edited) =>
        /\ components = UncachedGraph.components
        /\ imports = UncachedGraph.imports
        /\ exports = UncachedGraph.exports
        /\ (prev.valid /\ prev.use_cache # use_cache) =>
              /\ components = prev.components
              /\ imports = prev.imports
              /\ exports = prev.exports

\* a cached run has returned that found, for one file, the entry an earlier
\* run left for the same text and, for another, an entry left for an older text
C26_Witness ==
    /\ phase = "returned"
    /\ ~edited
    /\ use_cache
    /\ runs = 2
    /\ found_bad # {}
    /\ \E f \in DOMAIN components :
          /\ <<"get", f>> \in cache_calls
          /\ f \notin extracted
    /\ \E g \in found_bad : g \in extracted /\ g \in DOMAIN components

====
